---------------------------- MODULE Spec2Model ----------------------------
(***************************************************************************)
(* argononed-rs (src/src/main.rs): a daemon with a main thread and two     *)
(* worker threads.  shutdown_check decodes button pulses counted by a GPIO *)
(* interrupt callback into "systemctl reboot" / "systemctl poweroff";      *)
(* fan_check maps temperature samples to a fan speed through a step table  *)
(* and writes it to I2C register 0.                                        *)
(*                                                                         *)
(* Temperatures are integers: the code compares an f32 sample x with an    *)
(* i16 threshold t (cast exactly to f32) by x < t, and for an integer t    *)
(* that holds exactly when floor(x) < t, so an integer sample stands for   *)
(* every sample with that floor.  Option<T> is a sequence: <<>> is None    *)
(* and <<x>> is Some(x).                                                   *)
(***************************************************************************)
EXTENDS Integers, Sequences, FiniteSets, TLC

VARIABLES
    mainPc,                 \* position of main()
    spc,                    \* position of the shutdown_check thread
    fpc,                    \* position of the fan_check thread
    sigS,                   \* shutdown_check's Signals instance: none / clear / pending
    sigF,                   \* fan_check's Signals instance: none / clear / pending
    nsig,                   \* termination signals delivered to the process so far
    PULSE_TIME,             \* static PULSE_TIME: AtomicU8
    edges,                  \* rising edges delivered to the callback so far
    polled,                 \* Option: the value the last PULSE_TIME.load returned
    issued,                 \* the power action the last poll iteration issued
    spawnsSinceEdge,        \* power actions spawned since the last rising edge
    loadsAfterSignal,       \* PULSE_TIME loads made with a signal already pending
    shutdownErr,            \* the call of shutdown_check that failed ("none": none yet)
    file,                   \* Option: the parsed content of /etc/argononed.conf
    config,                 \* Option: fan_check's config (after load_config)
    delay,                  \* fan_check's delay, in seconds
    curret_fan_speed,       \* fan_check's curret_fan_speed
    current_temperature,    \* fan_check's current_temperature
    target_fan_speed,       \* fan_check's target_fan_speed
    fan_register,           \* Option: the last byte written to I2C register 0
    samples,                \* the temperature samples taken, in order
    applied,                \* fan_register over each completed thread::sleep(delay)
    sleepsSinceSample,      \* sleeps completed since the last temperature sample
    sleepsBegunAfterSignal, \* sleeps fan_check began with a signal already pending
    fanErr,                 \* the call or check of fan_check that failed ("none": none yet)
    writes                  \* writes of the loop body (line 146) that returned Ok

vars == << mainPc, spc, fpc, sigS, sigF, nsig, PULSE_TIME, edges, polled, issued,
           spawnsSinceEdge, loadsAfterSignal, file, config, delay, curret_fan_speed,
           current_temperature, target_fan_speed, fan_register, samples, applied,
           sleepsSinceSample, sleepsBegunAfterSignal, shutdownErr, fanErr, writes >>

mainVars == << mainPc >>
sigVars == << sigS, sigF, nsig >>
pulseVars == << PULSE_TIME, edges >>
pollState == << polled, issued, spawnsSinceEdge, loadsAfterSignal >>
pollVars == << pollState, shutdownErr >>
fanState == << config, delay, curret_fan_speed, current_temperature,
               target_fan_speed, fan_register, samples, applied,
               sleepsSinceSample, sleepsBegunAfterSignal, writes >>
fanVars == << fanState, fanErr >>

---------------------------------------------------------------------------
\* Bounds of the model.
MaxIter == 3        \* temperature samples fan_check takes
MaxEdges == 6       \* rising edges on the button pin
MaxSignals == 1     \* termination signals sent to the process
MaxSteps == 3       \* entries of a generated step table
SpawnCap == 2       \* spawnsSinceEdge saturates here

\* Program constants.
DefaultDelay == 30  \* delay_on_change: None => 30
U8 == 256           \* AtomicU8 / u8 wrap

None == << >>
Some(x) == << x >>
IsSome(o) == Len(o) = 1
Unwrap(o) == o[1]

Pair(t, s) == [temperature |-> t, fan_speed |-> s]

FanConfig(d, c, s, dl) ==
    [dynamic |-> d, const_fan_speed |-> c, step |-> s, delay_on_change |-> dl]

\* The step list of the spec's hysteresis scenario, listed out of order.
ScenarioSteps == << Pair(60, 40), Pair(80, 80), Pair(40, 10) >>

\* The configuration files of the model: unreadable or malformed (None), and
\* one readable file per arm of fan_check's matches.
ConfigFiles ==
    { None,
      Some(FanConfig(TRUE, None, Some(ScenarioSteps), None)),
      Some(FanConfig(TRUE, None, Some(<< >>), Some(5))),
      Some(FanConfig(TRUE, Some(50), None, None)),
      Some(FanConfig(FALSE, Some(50), None, None)),
      Some(FanConfig(FALSE, None, Some(ScenarioSteps), None)) }

\* What read_temperature returns in the model.
Samples == { 35, 45, 65 }

---------------------------------------------------------------------------
\* load_config: step.sort_by(|a, b| a.temperature.cmp(&b.temperature)), a
\* stable sort: an entry goes after every entry whose temperature is <= its own.
RECURSIVE InsertStep(_, _)
InsertStep(sorted, e) ==
    IF sorted = << >> THEN << e >>
    ELSE IF e.temperature < sorted[1].temperature THEN << e >> \o sorted
    ELSE << sorted[1] >> \o InsertStep(Tail(sorted), e)

RECURSIVE SortSteps(_)
SortSteps(step) ==
    IF step = << >> THEN << >>
    ELSE InsertStep(SortSteps(SubSeq(step, 1, Len(step) - 1)), step[Len(step)])

load_config(f) ==
    IF IsSome(Unwrap(f).step)
    THEN Some([Unwrap(f) EXCEPT !.step = Some(SortSteps(Unwrap(Unwrap(f).step)))])
    ELSE f

\* fan_check's scan: target_fan_speed starts at 0; the first entry with
\* current_temperature < temperature sets it and breaks.
StepMatches_Le(t, e) == t <= e.temperature
StepMatches(t, e) == t < e.temperature

RECURSIVE TargetFanSpeed(_, _)
TargetFanSpeed(step_config, t) ==
    IF step_config = << >> THEN 0
    ELSE IF StepMatches(t, step_config[1]) THEN step_config[1].fan_speed
    ELSE TargetFanSpeed(Tail(step_config), t)

\* if target_fan_speed < curret_fan_speed { thread::sleep(delay) }
NeedsHold_Never(target, current) == FALSE
NeedsHold_Le(target, current) == target <= current
NeedsHold(target, current) == target < current

\* shutdown_check's match on PULSE_TIME.load
PulseAction_Shifted(v) ==
    CASE v = 1 \/ v = 2 -> "reboot"
      [] v = 3 \/ v = 4 -> "poweroff"
      [] OTHER -> "none"

PulseAction(v) ==
    CASE v = 2 \/ v = 3 -> "reboot"
      [] v = 4 \/ v = 5 -> "poweroff"
      [] OTHER -> "none"

\* The process is gone once main has returned or panicked, or a signal with
\* its default disposition has killed it.
ProcessAlive == mainPc \notin { "exit_ok", "exit_err", "panicked", "killed" }

---------------------------------------------------------------------------
Init ==
    /\ mainPc = "gpio_new"
    /\ spc = "not_started"
    /\ fpc = "not_started"
    /\ sigS = "none"
    /\ sigF = "none"
    /\ nsig = 0
    /\ PULSE_TIME = 0
    /\ edges = 0
    /\ polled = None
    /\ issued = "none"
    /\ spawnsSinceEdge = 0
    /\ loadsAfterSignal = 0
    /\ file \in ConfigFiles
    /\ config = None
    /\ delay = 0
    /\ curret_fan_speed = 0
    /\ current_temperature = 0
    /\ target_fan_speed = 0
    /\ fan_register = None
    /\ samples = << >>
    /\ applied = << >>
    /\ sleepsSinceSample = 0
    /\ sleepsBegunAfterSignal = 0
    /\ shutdownErr = "none"
    /\ fanErr = "none"
    /\ writes = 0

---------------------------------------------------------------------------
\* main()

\* let gpio_interface = Gpio::new()?;
M_GpioNew ==
    /\ mainPc = "gpio_new"
    /\ \/ mainPc' = "i2c_new"
       \/ mainPc' = "exit_err"
    /\ UNCHANGED << spc, fpc, sigVars, pulseVars, pollVars, file, fanVars >>

\* let mut i2c_interface = I2c::new()?;
M_I2cNew ==
    /\ mainPc = "i2c_new"
    /\ \/ mainPc' = "set_slave_address"
       \/ mainPc' = "exit_err"
    /\ UNCHANGED << spc, fpc, sigVars, pulseVars, pollVars, file, fanVars >>

\* i2c_interface.set_slave_address(FAN_ADDR)?;
M_SetSlaveAddress ==
    /\ mainPc = "set_slave_address"
    /\ \/ mainPc' = "spawn_shutdown"
       \/ mainPc' = "exit_err"
    /\ UNCHANGED << spc, fpc, sigVars, pulseVars, pollVars, file, fanVars >>

\* let shutdown_check_handler = thread::spawn(..shutdown_check(..).expect(..));
M_SpawnShutdown ==
    /\ mainPc = "spawn_shutdown"
    /\ mainPc' = "spawn_fan"
    /\ spc' = "signals_new"
    /\ UNCHANGED << fpc, sigVars, pulseVars, pollVars, file, fanVars >>

\* let fan_check_handler = thread::spawn(..fan_check(..).expect(..));
M_SpawnFan ==
    /\ mainPc = "spawn_fan"
    /\ mainPc' = "join_shutdown"
    /\ fpc' = "signals_new"
    /\ UNCHANGED << spc, sigVars, pulseVars, pollVars, file, fanVars >>

\* shutdown_check_handler.join().unwrap(): blocks until the thread is done,
\* and panics main() when the thread has panicked.
M_JoinShutdown ==
    /\ mainPc = "join_shutdown"
    /\ spc \in { "returned", "panicked" }
    /\ mainPc' = IF spc = "panicked" THEN "panicked" ELSE "join_fan"
    /\ UNCHANGED << spc, fpc, sigVars, pulseVars, pollVars, file, fanVars >>

M_JoinFan_NoWait ==
    /\ mainPc = "join_fan"
    /\ mainPc' = IF fpc = "panicked" THEN "panicked" ELSE "exit_ok"
    /\ UNCHANGED << spc, fpc, sigVars, pulseVars, pollVars, file, fanVars >>

\* fan_check_handler.join().unwrap(); return Ok(());
M_JoinFan ==
    /\ mainPc = "join_fan"
    /\ fpc \in { "returned", "panicked" }
    /\ mainPc' = IF fpc = "panicked" THEN "panicked" ELSE "exit_ok"
    /\ UNCHANGED << spc, fpc, sigVars, pulseVars, pollVars, file, fanVars >>

Main ==
    \/ M_GpioNew
    \/ M_I2cNew
    \/ M_SetSlaveAddress
    \/ M_SpawnShutdown
    \/ M_SpawnFan
    \/ M_JoinShutdown
    \/ M_JoinFan

---------------------------------------------------------------------------
\* The environment.

\* SIGTERM, SIGINT or SIGQUIT reaches the process.  With no Signals instance
\* created yet the default disposition kills it; otherwise every existing
\* instance records the signal as pending.
Signal ==
    /\ ProcessAlive
    /\ nsig < MaxSignals
    /\ nsig' = nsig + 1
    /\ IF sigS = "none" /\ sigF = "none"
       THEN /\ mainPc' = "killed"
            /\ UNCHANGED << sigS, sigF >>
       ELSE /\ sigS' = IF sigS = "none" THEN "none" ELSE "pending"
            /\ sigF' = IF sigF = "none" THEN "none" ELSE "pending"
            /\ UNCHANGED mainPc
    /\ UNCHANGED << spc, fpc, pulseVars, pollVars, file, fanVars >>

\* The closure given to set_async_interrupt, run for an edge on the pin while
\* shutdown_pin is alive: Level::High => PULSE_TIME.fetch_add(1), Level::Low => {}.
RisingEdgeUpTo(n) ==
    /\ ProcessAlive
    /\ spc \in { "loop_top", "poll" }
    /\ edges < n
    /\ \E level \in { "Low", "High" } :
        IF level = "High"
        THEN /\ PULSE_TIME' = (PULSE_TIME + 1) % U8
             /\ edges' = edges + 1
             /\ spawnsSinceEdge' = 0
        ELSE UNCHANGED << PULSE_TIME, edges, spawnsSinceEdge >>
    /\ UNCHANGED << mainPc, spc, fpc, sigVars, polled, issued, loadsAfterSignal,
                    shutdownErr, file, fanVars >>

RisingEdge == RisingEdgeUpTo(MaxEdges)

Environment ==
    \/ Signal
    \/ RisingEdge

---------------------------------------------------------------------------
\* shutdown_check(gpio_interface, 4); an Err it returns panics its thread
\* (.expect("Error monitoring the shutdown button")).

\* let mut signals = Signals::new(&[SIGTERM, SIGINT, SIGQUIT])?;
S_SignalsNew ==
    /\ ProcessAlive
    /\ spc = "signals_new"
    /\ \/ /\ spc' = "get_pin"
          /\ sigS' = "clear"
          /\ UNCHANGED shutdownErr
       \/ /\ spc' = "panicked"
          /\ shutdownErr' = "Signals::new"
          /\ UNCHANGED sigS
    /\ UNCHANGED << mainPc, fpc, sigF, nsig, pulseVars, pollState, file, fanVars >>

\* let mut shutdown_pin = gpio_interface.get(shutdown_pin_loc)?.into_input_pulldown();
S_GetPin ==
    /\ ProcessAlive
    /\ spc = "get_pin"
    /\ \/ /\ spc' = "set_async_interrupt"
          /\ UNCHANGED shutdownErr
       \/ /\ spc' = "panicked"
          /\ shutdownErr' = "Gpio::get"
    /\ UNCHANGED << mainPc, fpc, sigVars, pulseVars, pollState, file, fanVars >>

\* shutdown_pin.set_async_interrupt(Trigger::RisingEdge, |level| ..)?;
S_SetAsyncInterrupt ==
    /\ ProcessAlive
    /\ spc = "set_async_interrupt"
    /\ \/ /\ spc' = "loop_top"
          /\ UNCHANGED shutdownErr
       \/ /\ spc' = "panicked"
          /\ shutdownErr' = "set_async_interrupt"
    /\ UNCHANGED << mainPc, fpc, sigVars, pulseVars, pollState, file, fanVars >>

\* for signal in signals.pending() { .. break 'outer; }  and  return Ok(());
\* pending() drains the instance.
S_LoopTop ==
    /\ ProcessAlive
    /\ spc = "loop_top"
    /\ IF sigS = "pending"
       THEN /\ spc' = "returned"
            /\ sigS' = "clear"
       ELSE /\ spc' = "poll"
            /\ UNCHANGED sigS
    /\ UNCHANGED << mainPc, fpc, sigF, nsig, pulseVars, pollVars, file, fanVars >>

\* match PULSE_TIME.load(SeqCst) { 2 | 3 => Command::new("systemctl reboot").spawn()?,
\*   4 | 5 => Command::new("systemctl poweroff").spawn()?, _ => {} }
\* A spawn that fails returns Err from shutdown_check.
S_Poll ==
    /\ ProcessAlive
    /\ spc = "poll"
    /\ polled' = Some(PULSE_TIME)
    /\ issued' = PulseAction(PULSE_TIME)
    /\ loadsAfterSignal' = loadsAfterSignal + (IF sigS = "pending" THEN 1 ELSE 0)
    /\ IF PulseAction(PULSE_TIME) = "none"
       THEN /\ spc' = "loop_top"
            /\ UNCHANGED << spawnsSinceEdge, shutdownErr >>
       ELSE \E spawned \in BOOLEAN :
               IF spawned
               THEN /\ spc' = "loop_top"
                    /\ spawnsSinceEdge' = IF spawnsSinceEdge < SpawnCap
                                          THEN spawnsSinceEdge + 1
                                          ELSE SpawnCap
                    /\ UNCHANGED shutdownErr
               ELSE /\ spc' = "panicked"
                    /\ shutdownErr' = "Command::spawn"
                    /\ UNCHANGED spawnsSinceEdge
    /\ UNCHANGED << mainPc, fpc, sigVars, pulseVars, file, fanVars >>

ShutdownCheck ==
    \/ S_SignalsNew
    \/ S_GetPin
    \/ S_SetAsyncInterrupt
    \/ S_LoopTop
    \/ S_Poll

---------------------------------------------------------------------------
\* fan_check(i2c_interface); an Err it returns panics its thread
\* (.expect("Error keeping the fan running")).

\* let mut signals = Signals::new(&[SIGTERM, SIGINT, SIGQUIT])?;
F_SignalsNew ==
    /\ ProcessAlive
    /\ fpc = "signals_new"
    /\ \/ /\ fpc' = "load_config"
          /\ sigF' = "clear"
          /\ UNCHANGED fanErr
       \/ /\ fpc' = "panicked"
          /\ fanErr' = "Signals::new"
          /\ UNCHANGED sigF
    /\ UNCHANGED << mainPc, spc, sigS, nsig, pulseVars, pollVars, file, fanState >>

\* let config = load_config("/etc/argononed.conf")?;  read_to_string or
\* toml::from_str fails on a file that is unreadable or malformed.
F_LoadConfig ==
    /\ ProcessAlive
    /\ fpc = "load_config"
    /\ IF IsSome(file)
       THEN /\ config' = load_config(file)
            /\ fpc' = "match_dynamic"
            /\ UNCHANGED fanErr
       ELSE /\ fpc' = "panicked"
            /\ fanErr' = "load_config"
            /\ UNCHANGED config
    /\ UNCHANGED << mainPc, spc, sigVars, pulseVars, pollVars, file, delay,
                    curret_fan_speed, current_temperature, target_fan_speed,
                    fan_register, samples, applied, sleepsSinceSample,
                    sleepsBegunAfterSignal, writes >>

\* match config.dynamic { false => match config.const_fan_speed { .. },
\*   true => { let delay = ..; match config.step { .. } } }  up to the
\* loop's entry (let mut curret_fan_speed: u8 = 0).
F_MatchDynamic ==
    /\ ProcessAlive
    /\ fpc = "match_dynamic"
    /\ LET c == Unwrap(config) IN
       IF ~c.dynamic
       THEN /\ IF IsSome(c.const_fan_speed)
               THEN \E written \in BOOLEAN :
                       IF written
                       THEN /\ fan_register' = c.const_fan_speed
                            /\ fpc' = "returned"
                            /\ UNCHANGED fanErr
                       ELSE /\ fpc' = "panicked"
                            /\ fanErr' = "smbus_write_byte"
                            /\ UNCHANGED fan_register
               ELSE /\ fpc' = "panicked"
                    /\ fanErr' = "NoConstantSpeed"
                    /\ UNCHANGED fan_register
            /\ UNCHANGED << delay, curret_fan_speed >>
       ELSE /\ delay' = IF IsSome(c.delay_on_change)
                        THEN Unwrap(c.delay_on_change) ELSE DefaultDelay
            /\ IF IsSome(c.step) /\ Len(Unwrap(c.step)) # 0
               THEN /\ curret_fan_speed' = 0
                    /\ fpc' = "loop_top"
                    /\ UNCHANGED fanErr
               ELSE /\ fpc' = "panicked"
                    /\ fanErr' = "EmptyStepConfig"
                    /\ UNCHANGED curret_fan_speed
            /\ UNCHANGED fan_register
    /\ UNCHANGED << mainPc, spc, sigVars, pulseVars, pollVars, file, config,
                    current_temperature, target_fan_speed, samples, applied,
                    sleepsSinceSample, sleepsBegunAfterSignal, writes >>

F_LoopTop_NoWrite ==
    /\ ProcessAlive
    /\ fpc = "loop_top"
    /\ IF sigF = "pending"
       THEN /\ sigF' = "clear"
            /\ fpc' = "returned"
       ELSE /\ fpc' = "read_temperature"
            /\ UNCHANGED sigF
    /\ UNCHANGED << mainPc, spc, sigS, nsig, pulseVars, pollVars, file, fanVars >>

\* for signal in signals.pending() { i2c_interface.smbus_write_byte(0, 0)?;
\*   break 'outer; }  and  return Ok(());
F_LoopTop ==
    /\ ProcessAlive
    /\ fpc = "loop_top"
    /\ IF sigF = "pending"
       THEN /\ sigF' = "clear"
            /\ \E written \in BOOLEAN :
                  IF written
                  THEN /\ fan_register' = Some(0)
                       /\ fpc' = "returned"
                       /\ UNCHANGED fanErr
                  ELSE /\ fpc' = "panicked"
                       /\ fanErr' = "smbus_write_byte"
                       /\ UNCHANGED fan_register
       ELSE /\ fpc' = "read_temperature"
            /\ UNCHANGED << sigF, fan_register, fanErr >>
    /\ UNCHANGED << mainPc, spc, sigS, nsig, pulseVars, pollVars, file, config,
                    delay, curret_fan_speed, current_temperature,
                    target_fan_speed, samples, applied, sleepsSinceSample,
                    sleepsBegunAfterSignal, writes >>

\* let current_temperature = read_temperature()?;  the scan of step_config;
\* if target_fan_speed < curret_fan_speed { thread::sleep(delay) begins }
F_ReadTempFrom(S) ==
    /\ ProcessAlive
    /\ fpc = "read_temperature"
    /\ Len(samples) < MaxIter
    /\ \/ /\ fpc' = "panicked"
          /\ fanErr' = "read_temperature"
          /\ UNCHANGED << current_temperature, target_fan_speed, samples,
                          sleepsSinceSample, sleepsBegunAfterSignal >>
       \/ \E t \in S :
             LET target == TargetFanSpeed(Unwrap(Unwrap(config).step), t) IN
             /\ current_temperature' = t
             /\ target_fan_speed' = target
             /\ samples' = Append(samples, t)
             /\ sleepsSinceSample' = 0
             /\ UNCHANGED fanErr
             /\ IF NeedsHold(target, curret_fan_speed)
                THEN /\ fpc' = "hold"
                     /\ sleepsBegunAfterSignal' =
                            sleepsBegunAfterSignal + (IF sigF = "pending" THEN 1 ELSE 0)
                ELSE /\ fpc' = "write"
                     /\ UNCHANGED sleepsBegunAfterSignal
    /\ UNCHANGED << mainPc, spc, sigVars, pulseVars, pollVars, file, config,
                    delay, curret_fan_speed, fan_register, applied, writes >>

F_ReadTemp == F_ReadTempFrom(Samples)

F_Hold_Resample ==
    /\ ProcessAlive
    /\ fpc = "hold"
    /\ fpc' = "read_temperature"
    /\ applied' = Append(applied, Unwrap(fan_register))
    /\ sleepsSinceSample' = sleepsSinceSample + 1
    /\ UNCHANGED << mainPc, spc, sigVars, pulseVars, pollVars, file, config,
                    delay, curret_fan_speed, current_temperature,
                    target_fan_speed, fan_register, samples,
                    sleepsBegunAfterSignal, fanErr, writes >>

\* The hysteresis thread::sleep(Duration::from_secs(delay)) ends.
F_Hold ==
    /\ ProcessAlive
    /\ fpc = "hold"
    /\ fpc' = "write"
    /\ applied' = Append(applied, Unwrap(fan_register))
    /\ sleepsSinceSample' = sleepsSinceSample + 1
    /\ UNCHANGED << mainPc, spc, sigVars, pulseVars, pollVars, file, config,
                    delay, curret_fan_speed, current_temperature,
                    target_fan_speed, fan_register, samples,
                    sleepsBegunAfterSignal, fanErr, writes >>

F_Write_KeepCurrent ==
    /\ ProcessAlive
    /\ fpc = "write"
    /\ curret_fan_speed' = curret_fan_speed
    /\ \E written \in BOOLEAN :
          IF written
          THEN /\ fan_register' = Some(target_fan_speed)
               /\ fpc' = "sleep"
               /\ writes' = writes + 1
               /\ sleepsBegunAfterSignal' =
                      sleepsBegunAfterSignal + (IF sigF = "pending" THEN 1 ELSE 0)
               /\ UNCHANGED fanErr
          ELSE /\ fpc' = "panicked"
               /\ fanErr' = "smbus_write_byte"
               /\ UNCHANGED << fan_register, sleepsBegunAfterSignal, writes >>
    /\ UNCHANGED << mainPc, spc, sigVars, pulseVars, pollVars, file, config,
                    delay, current_temperature, target_fan_speed, samples,
                    applied, sleepsSinceSample >>

F_Write_Stale ==
    /\ ProcessAlive
    /\ fpc = "write"
    /\ curret_fan_speed' = target_fan_speed
    /\ \E written \in BOOLEAN :
          IF written
          THEN /\ fan_register' = Some(curret_fan_speed)
               /\ fpc' = "sleep"
               /\ writes' = writes + 1
               /\ sleepsBegunAfterSignal' =
                      sleepsBegunAfterSignal + (IF sigF = "pending" THEN 1 ELSE 0)
               /\ UNCHANGED fanErr
          ELSE /\ fpc' = "panicked"
               /\ fanErr' = "smbus_write_byte"
               /\ UNCHANGED << fan_register, sleepsBegunAfterSignal, writes >>
    /\ UNCHANGED << mainPc, spc, sigVars, pulseVars, pollVars, file, config,
                    delay, current_temperature, target_fan_speed, samples,
                    applied, sleepsSinceSample >>

F_Write_Retry ==
    /\ ProcessAlive
    /\ fpc = "write"
    /\ curret_fan_speed' = target_fan_speed
    /\ \E written \in BOOLEAN :
          IF written
          THEN /\ fan_register' = Some(target_fan_speed)
               /\ fpc' = "sleep"
               /\ writes' = writes + 1
               /\ sleepsBegunAfterSignal' =
                      sleepsBegunAfterSignal + (IF sigF = "pending" THEN 1 ELSE 0)
               /\ UNCHANGED fanErr
          ELSE /\ fpc' = "write"
               /\ fanErr' = "smbus_write_byte"
               /\ UNCHANGED << fan_register, sleepsBegunAfterSignal, writes >>
    /\ UNCHANGED << mainPc, spc, sigVars, pulseVars, pollVars, file, config,
                    delay, current_temperature, target_fan_speed, samples,
                    applied, sleepsSinceSample >>

\* curret_fan_speed = target_fan_speed;
\* i2c_interface.smbus_write_byte(0, curret_fan_speed)?;
\* thread::sleep(delay) begins.
F_Write ==
    /\ ProcessAlive
    /\ fpc = "write"
    /\ curret_fan_speed' = target_fan_speed
    /\ \E written \in BOOLEAN :
          IF written
          THEN /\ fan_register' = Some(target_fan_speed)
               /\ fpc' = "sleep"
               /\ writes' = writes + 1
               /\ sleepsBegunAfterSignal' =
                      sleepsBegunAfterSignal + (IF sigF = "pending" THEN 1 ELSE 0)
               /\ UNCHANGED fanErr
          ELSE /\ fpc' = "panicked"
               /\ fanErr' = "smbus_write_byte"
               /\ UNCHANGED << fan_register, sleepsBegunAfterSignal, writes >>
    /\ UNCHANGED << mainPc, spc, sigVars, pulseVars, pollVars, file, config,
                    delay, current_temperature, target_fan_speed, samples,
                    applied, sleepsSinceSample >>

\* The loop's closing thread::sleep(Duration::from_secs(delay)) ends.
F_Sleep ==
    /\ ProcessAlive
    /\ fpc = "sleep"
    /\ fpc' = "loop_top"
    /\ applied' = Append(applied, Unwrap(fan_register))
    /\ sleepsSinceSample' = sleepsSinceSample + 1
    /\ UNCHANGED << mainPc, spc, sigVars, pulseVars, pollVars, file, config,
                    delay, curret_fan_speed, current_temperature,
                    target_fan_speed, fan_register, samples,
                    sleepsBegunAfterSignal, fanErr, writes >>

FanCheck ==
    \/ F_SignalsNew
    \/ F_LoadConfig
    \/ F_MatchDynamic
    \/ F_LoopTop
    \/ F_ReadTemp
    \/ F_Hold
    \/ F_Write
    \/ F_Sleep

---------------------------------------------------------------------------
Next ==
    \/ Main
    \/ ShutdownCheck
    \/ FanCheck
    \/ Environment

Spec == Init /\ [][Next]_vars

\* One temperature sample of a generated step table: fan_check from
\* load_config to the end of the scan, with both threads started and
\* shutdown_check in its loop.
TableThresholds == { 40, 50 }
TableSpeeds == { 10, 20 }
WideSamples == { 35, 40, 45, 50, 55 }

StepPairs == { Pair(t, s) : t \in TableThresholds, s \in TableSpeeds }
StepLists == UNION { [1..n -> StepPairs] : n \in 0..MaxSteps }
TableFiles == { Some(FanConfig(TRUE, None, Some(l), None)) : l \in StepLists }

F_ReadTempWide == F_ReadTempFrom(WideSamples)

InitTarget ==
    /\ mainPc = "join_shutdown"
    /\ spc = "loop_top"
    /\ fpc = "load_config"
    /\ sigS = "clear"
    /\ sigF = "clear"
    /\ nsig = 0
    /\ PULSE_TIME = 0
    /\ edges = 0
    /\ polled = None
    /\ issued = "none"
    /\ spawnsSinceEdge = 0
    /\ loadsAfterSignal = 0
    /\ file \in TableFiles
    /\ config = None
    /\ delay = 0
    /\ curret_fan_speed = 0
    /\ current_temperature = 0
    /\ target_fan_speed = 0
    /\ fan_register = None
    /\ samples = << >>
    /\ applied = << >>
    /\ sleepsSinceSample = 0
    /\ sleepsBegunAfterSignal = 0
    /\ shutdownErr = "none"
    /\ fanErr = "none"
    /\ writes = 0

NextTarget ==
    \/ F_LoadConfig
    \/ F_MatchDynamic
    \/ F_LoopTop
    \/ F_ReadTempWide

SpecTarget == InitTarget /\ [][NextTarget]_vars

\* The threads run: the scheduler lets every runnable thread take its next
\* step, and a thread::sleep ends.  Signals and button edges may never come.
SpecFair ==
    /\ Spec
    /\ WF_vars(Main)
    /\ WF_vars(ShutdownCheck)
    /\ WF_vars(FanCheck)

---------------------------------------------------------------------------
\* Positions inside the two loops, and the loaded step table.
DecoderLoop == { "loop_top", "poll" }
FanLoop == { "loop_top", "read_temperature", "hold", "write", "sleep" }
LoadedSteps == Unwrap(Unwrap(config).step)
ScenarioTable == << Pair(40, 10), Pair(60, 40), Pair(80, 80) >>

\* C1: after a sample, the target is the fan_speed of the first entry of the
\* loaded (ascending) table whose temperature is strictly greater than the
\* sample, and 0 when there is none; an entry whose temperature equals the
\* sample is never the one selected.
C1_TargetIsFirstAbove ==
    fpc \in { "hold", "write" } =>
        LET step == LoadedSteps
            above == { i \in DOMAIN step : step[i].temperature > current_temperature }
        IN  /\ \A i, j \in DOMAIN step : i < j => step[i].temperature <= step[j].temperature
            /\ above = { } => target_fan_speed = 0
            /\ above # { } =>
                 \E i \in above :
                    /\ \A j \in above : i <= j
                    /\ target_fan_speed = step[i].fan_speed
                    /\ step[i].temperature # current_temperature

\* C1's case: the sample 40 equals the first entry's threshold and the target
\* is the second entry's level.
C1_Witness ==
    /\ fpc = "write"
    /\ LoadedSteps = << Pair(40, 10), Pair(50, 20) >>
    /\ current_temperature = 40
    /\ target_fan_speed = 20

\* C2 (as amended): while a target lower than the current level waits, the
\* register holds the current level, and the lower target is written only
\* after one full sleep since the sample; with the scenario table and the
\* samples 35, 65, 45 the register over the four sleeps is 10, 80, 80, 40.
C2_HoldBeforeLowering ==
    /\ fpc = "hold" =>
          /\ target_fan_speed < curret_fan_speed
          /\ fan_register = Some(curret_fan_speed)
          /\ sleepsSinceSample = 0
    /\ (fpc = "write" /\ target_fan_speed < curret_fan_speed) =>
          /\ fan_register = Some(curret_fan_speed)
          /\ sleepsSinceSample = 1
    /\ (samples = << 35, 65, 45 >> /\ LoadedSteps = ScenarioTable /\ Len(applied) = 4) =>
          applied = << 10, 80, 80, 40 >>

\* C2's case: the scenario has run through its hold and its four sleeps.
C2_Witness ==
    /\ samples = << 35, 65, 45 >>
    /\ LoadedSteps = ScenarioTable
    /\ applied = << 10, 80, 80, 40 >>
    /\ fpc = "loop_top"

\* C2 as stated: the same, with the register over the four sleeps of the
\* scenario being 10, 40, 40, 10.
C2_Original ==
    /\ fpc = "hold" =>
          /\ target_fan_speed < curret_fan_speed
          /\ fan_register = Some(curret_fan_speed)
          /\ sleepsSinceSample = 0
    /\ (fpc = "write" /\ target_fan_speed < curret_fan_speed) =>
          /\ fan_register = Some(curret_fan_speed)
          /\ sleepsSinceSample = 1
    /\ (samples = << 35, 65, 45 >> /\ LoadedSteps = ScenarioTable /\ Len(applied) = 4) =>
          applied = << 10, 40, 40, 10 >>

\* C3: a target greater than or equal to the current level is written with no
\* sleep since its sample: the loop holds only for a strictly lower target,
\* and once the write is done the register and the current level are the target.
C3_NoHoldOnRaise ==
    /\ (fpc = "write" /\ target_fan_speed >= curret_fan_speed) => sleepsSinceSample = 0
    /\ (fpc = "hold" \/ (fpc = "write" /\ sleepsSinceSample = 1)) =>
          target_fan_speed < curret_fan_speed
    /\ fpc = "sleep" =>
          /\ fan_register = Some(target_fan_speed)
          /\ curret_fan_speed = target_fan_speed

\* C3's case: a target equal to a non-zero current level is about to be written.
C3_Witness ==
    /\ fpc = "write"
    /\ target_fan_speed = curret_fan_speed
    /\ curret_fan_speed > 0
    /\ sleepsSinceSample = 0

\* C4: the action a poll iteration issues is decided by the value it loaded:
\* 0 or 1 nothing, 2 or 3 a reboot, 4 or 5 a power-off, 6 or more nothing.
C4_PulseClassification ==
    IsSome(polled) =>
        LET v == Unwrap(polled) IN
        /\ v \in { 0, 1 } => issued = "none"
        /\ v \in { 2, 3 } => issued = "reboot"
        /\ v \in { 4, 5 } => issued = "poweroff"
        /\ v >= 6 => issued = "none"

\* C4's case: a poll that loaded 6 after an earlier power-off issued nothing.
C4_Witness ==
    /\ polled = Some(6)
    /\ issued = "none"
    /\ spawnsSinceEdge = 0
    /\ spc = "loop_top"

\* C5: a burst that leaves PULSE_TIME in 2..5 gets one spawn: no second power
\* action is spawned while no further rising edge has come.
C5_OncePerBurst == spawnsSinceEdge <= 1

\* C6: with a signal pending, fan_check begins at most one more sleep before
\* it leaves its loop, and shutdown_check makes at most the load of the
\* iteration it is in.
C6_BoundedLatency ==
    /\ sleepsBegunAfterSignal <= 1
    /\ loadsAfterSignal <= 1

\* C7: a step of fan_check from the top of its loop with a signal pending
\* leaves the loop, takes no sample, and when the thread returns the
\* register is 0; once fan_check is done the register and the samples stay.
C7_FanOffOnTermination ==
    [][ /\ (fpc = "loop_top" /\ sigF = "pending" /\ fpc' # fpc) =>
             /\ fpc' \in { "returned", "panicked" }
             /\ samples' = samples
             /\ fpc' = "returned" => fan_register' = Some(0)
        /\ fpc \in { "returned", "panicked" } =>
             /\ fpc' = fpc
             /\ fan_register' = fan_register
             /\ samples' = samples ]_vars

\* C7's case: the fan ran at a non-zero level, then fan_check observed the
\* signal, wrote 0 and returned.
C7_Witness ==
    /\ fpc = "returned"
    /\ applied # << >>
    /\ applied[Len(applied)] > 0
    /\ fan_register = Some(0)

\* C8: once either thread has panicked the process ends, with no termination
\* signal needed for that.
C8_CoupledLifetimes ==
    (spc = "panicked" \/ fpc = "panicked") ~> (~ProcessAlive \/ nsig > 0)

\* C9: when fan_check rejects a dynamic configuration whose step list is
\* absent or empty, no sample and no write has been made and shutdown_check
\* has not entered its loop.
C9_ConfigRejection ==
    [][ ( /\ fpc = "match_dynamic"
          /\ fpc' = "panicked"
          /\ Unwrap(config).dynamic
          /\ (~IsSome(Unwrap(config).step) \/ LoadedSteps = << >>) ) =>
             /\ samples = << >>
             /\ fan_register = None
             /\ spc \notin DecoderLoop
             /\ polled = None ]_vars

\* C10 (as amended): the process never exits while shutdown_check is in its
\* loop; it exits with Ok only after both threads have returned; and it exits
\* with fan_check in its loop only when shutdown_check has panicked and
\* main's first join has panicked with it.
C10_JoinAll ==
    ~ProcessAlive =>
        /\ spc \notin DecoderLoop
        /\ mainPc = "exit_ok" => (spc = "returned" /\ fpc = "returned")
        /\ fpc \in FanLoop => (mainPc = "panicked" /\ spc = "panicked")

\* C10's case: both loops ran and returned, and main has returned Ok.
C10_Witness ==
    /\ mainPc = "exit_ok"
    /\ samples # << >>
    /\ polled # None

\* C10 as stated: at process exit neither loop is running.
C10_Original ==
    ~ProcessAlive => (spc \notin DecoderLoop /\ fpc \notin FanLoop)

---------------------------------------------------------------------------
\* A long press: shutdown_check in its loop, fan_check spawned and not yet
\* scheduled, and enough rising edges to take the AtomicU8 past 255.
RisingEdgeWrap == RisingEdgeUpTo(U8 + MaxEdges)

InitPulse ==
    /\ mainPc = "join_shutdown"
    /\ spc = "loop_top"
    /\ fpc = "signals_new"
    /\ sigS = "clear"
    /\ sigF = "none"
    /\ nsig = 0
    /\ PULSE_TIME = 0
    /\ edges = 0
    /\ polled = None
    /\ issued = "none"
    /\ spawnsSinceEdge = 0
    /\ loadsAfterSignal = 0
    /\ file = Some(FanConfig(TRUE, None, Some(ScenarioSteps), None))
    /\ config = None
    /\ delay = 0
    /\ curret_fan_speed = 0
    /\ current_temperature = 0
    /\ target_fan_speed = 0
    /\ fan_register = None
    /\ samples = << >>
    /\ applied = << >>
    /\ sleepsSinceSample = 0
    /\ sleepsBegunAfterSignal = 0
    /\ shutdownErr = "none"
    /\ fanErr = "none"
    /\ writes = 0

NextPulse ==
    \/ RisingEdgeWrap
    \/ S_LoopTop
    \/ S_Poll

SpecPulse == InitPulse /\ [][NextPulse]_vars

\* C16: PULSE_TIME never decreases, and a later load never returns less than
\* an earlier one.
C16_PulseMonotone ==
    [][ /\ PULSE_TIME' >= PULSE_TIME
        /\ (IsSome(polled) /\ IsSome(polled')) => Unwrap(polled') >= Unwrap(polled) ]_vars

\* C17: a poll iteration made after more than 5 rising edges issues nothing.
C17_LongPressSilent ==
    [][ (edges > 5 /\ spc = "poll" /\ spc' # "poll") => issued' = "none" ]_vars

---------------------------------------------------------------------------
\* C11: a thread function returns Ok only by a step from the top of its loop
\* with a signal pending on its own Signals instance.
C11_RunUntilSignal ==
    [][ /\ (fpc # "returned" /\ fpc' = "returned") =>
               (fpc = "loop_top" /\ sigF = "pending")
        /\ (spc # "returned" /\ spc' = "returned") =>
               (spc = "loop_top" /\ sigS = "pending") ]_vars

\* A hardware handle could not be acquired: Gpio::new, I2c::new or
\* set_slave_address in main, the pin or its interrupt in shutdown_check.
HardwareFailed ==
    \/ mainPc = "exit_err"
    \/ shutdownErr \in { "Gpio::get", "set_async_interrupt" }

\* C12: in an execution with a hardware acquisition failure there is no
\* temperature sample, no write to the fan register and no poll of the pulse
\* counter (hence no power action).
C12_HardwareFailureAborts ==
    HardwareFailed =>
        /\ samples = << >>
        /\ fan_register = None
        /\ polled = None

\* C13: a call that fails ends its thread function in Err at once, and from
\* then on the thread takes no sample, makes no write, and issues no action.
C13_NoRetries ==
    [][ /\ fanErr' # "none" => fpc' = "panicked"
        /\ fanErr # "none" =>
              /\ fanErr' = fanErr
              /\ samples' = samples
              /\ fan_register' = fan_register
              /\ writes' = writes
        /\ shutdownErr' # "none" => spc' = "panicked"
        /\ shutdownErr # "none" =>
              /\ shutdownErr' = shutdownErr
              /\ polled' = polled
              /\ issued' = issued
              /\ spawnsSinceEdge' = spawnsSinceEdge ]_vars

\* C13's case: a write of the loop body failed after an earlier one went
\* through, and a power-action spawn failed.
C13_Witness ==
    /\ fanErr = "smbus_write_byte"
    /\ writes > 0
    /\ fpc = "panicked"
    /\ shutdownErr = "Command::spawn"
    /\ spc = "panicked"

IsPermutation(a, b) ==
    /\ Len(a) = Len(b)
    /\ \A p \in StepPairs :
          Cardinality({ i \in DOMAIN a : a[i] = p }) =
          Cardinality({ i \in DOMAIN b : b[i] = p })

\* C14: the target computed for a sample is the one every permutation of the
\* configured step list gives after load_config's sort.
C14_OrderIndependent ==
    fpc \in { "hold", "write" } =>
        \A l \in StepLists :
            IsPermutation(l, Unwrap(Unwrap(file).step)) =>
                TargetFanSpeed(SortSteps(l), current_temperature) = target_fan_speed

SameSampleTwice ==
    /\ Len(samples) >= 2
    /\ samples[Len(samples)] = samples[Len(samples) - 1]

\* C15: when a sample repeats the one before it, the target equals the
\* current level and the register, no hysteresis sleep is entered, and the
\* write leaves the register at the level it had over the sleep before.
C15_Idempotent ==
    /\ (SameSampleTwice /\ fpc \in { "hold", "write" }) =>
          /\ fpc = "write"
          /\ sleepsSinceSample = 0
          /\ target_fan_speed = curret_fan_speed
          /\ fan_register = Some(target_fan_speed)
    /\ (SameSampleTwice /\ fpc = "sleep") =>
          /\ fan_register = Some(target_fan_speed)
          /\ fan_register = Some(applied[Len(applied)])

\* C15's case: the sample 65 came twice and 80 was written twice.
C15_Witness ==
    /\ samples = << 65, 65 >>
    /\ fpc = "sleep"
    /\ writes = 2
    /\ applied = << 80 >>
    /\ fan_register = Some(80)

\* C18: in the dynamic loop the register holds 0 or a fan_speed of the
\* loaded table (so at most 100 when every table level is); before the first
\* write the current level is 0, and after a write of the loop body the
\* current level is the value written.
C18_WrittenLevels ==
    /\ ( /\ IsSome(config)
         /\ Unwrap(config).dynamic
         /\ IsSome(Unwrap(config).step)
         /\ IsSome(fan_register) ) =>
          LET levels == { LoadedSteps[i].fan_speed : i \in DOMAIN LoadedSteps } IN
          /\ Unwrap(fan_register) \in levels \cup { 0 }
          /\ (\A l \in levels : l <= 100) => Unwrap(fan_register) \in 0..100
    /\ (fpc \in FanLoop /\ writes = 0) =>
          /\ curret_fan_speed = 0
          /\ fan_register = None
    /\ fpc = "sleep" =>
          /\ writes > 0
          /\ fan_register = Some(curret_fan_speed)

\* C18's case: the second write of the loop wrote 80.
C18_Witness ==
    /\ fpc = "sleep"
    /\ writes = 2
    /\ curret_fan_speed = 80
    /\ fan_register = Some(80)

\* C19: a write of the loop body follows exactly one sample taken since the
\* write before it and writes the target of that sample; from the sample to
\* the write, through a hold, fan_check neither samples again nor drains its
\* pending signals.
C19_OneSamplePerWrite ==
    [][ /\ fpc' \in { "hold", "write" } => Len(samples') = writes' + 1
        /\ fpc' \in { "sleep", "loop_top", "read_temperature" } => Len(samples') = writes'
        /\ (fpc = "write" /\ fpc' = "sleep") =>
              /\ writes' = writes + 1
              /\ fan_register' = Some(TargetFanSpeed(LoadedSteps, samples[Len(samples)]))
        /\ fpc = "hold" =>
              /\ fpc' \in { "hold", "write" }
              /\ samples' = samples
              /\ sigF = "pending" => sigF' = "pending"
        /\ fpc = "write" =>
              /\ fpc' \in { "write", "sleep", "panicked" }
              /\ samples' = samples
              /\ sigF = "pending" => sigF' = "pending" ]_vars

\* C19's case: a signal was pending before the hold began, and the hold and
\* the write went ahead on the one sample.
C19_Witness ==
    /\ fpc = "sleep"
    /\ sleepsSinceSample = 1
    /\ sleepsBegunAfterSignal = 2
    /\ sigF = "pending"
    /\ Len(samples) = writes

=============================================================================
